---- MODULE Spec2Model ----
(***************************************************************************)
(* Client-side A/B testing of the portfolio site:                          *)
(*   lib/ab-testing/experiments   (experiments, getVariant, hashString)    *)
(*   lib/ab-testing/useExperiment (useExperiment, generateUserId,          *)
(*                                 trackExperimentExposure, trackConversion)*)
(* and its scroll and frame-rate state:                                    *)
(*   lib/hooks/useScrollPosition      (scrollY, scrollProgress)            *)
(*   components/ui/Navigation         (isScrolled, mobileMenuOpen)         *)
(*   lib/hooks/usePerformanceMonitor  (fps, shouldReduceQuality)           *)
(*   components/3d/ParticleSystem     (particleCount, positions)           *)
(* Each part has a specification of its own (Spec, SpecConfig, SpecSurvey, *)
(* SpecHook, SpecRender, SpecTabs, SpecHash, SpecScroll, SpecNav,          *)
(* SpecPerf, SpecParticles); the parts it does not run stay at rest.       *)
(* Pixels and milliseconds are integers, and a quotient is kept as         *)
(* numerator and denominator.                                              *)
(*                                                                         *)
(* Strings that the code hashes are sequences of UTF-16 code units, so     *)
(* that charCodeAt and concatenation are computed and not assumed.         *)
(* Variant ids, event names and conversion types are never hashed and are  *)
(* plain strings.  A weight is kept in hundredths (0.34 is 34): every      *)
(* partial sum of the shipped weights is exact at that scale, also in      *)
(* IEEE doubles (0.34 + 0.33 = 0.67, 0.67 + 0.33 = 1.0, 0.5 + 0.5 = 1.0).  *)
(* 32-bit integers are pairs of 16-bit halves and larger integers are      *)
(* little-endian lists of 16-bit limbs, so that no step overflows.         *)
(***************************************************************************)
EXTENDS Integers, Sequences, FiniteSets, TLC

VARIABLES
    registry,       \* the experiments object: key -> Experiment
    last,           \* the latest getVariant call and what it produced
    memo,           \* one earlier user-id call, remembered for comparison
    hashCall,       \* the latest observed hash-path call of getVariant
    surveyExp,      \* experiment of the running bucketing survey
    surveyIndex,    \* number of synthetic user ids the survey has bucketed
    tally,          \* variant id -> number of surveyed ids assigned to it
    storage,        \* localStorage item ab_user_id (null when absent)
    storageThrows,  \* localStorage access raises (denied / not defined)
    gtag,           \* window.gtag: "absent", "ok" or "throws"
    experimentId,   \* useExperiment: the experimentId argument
    variant,        \* useExperiment: the variant state
    userId,         \* useExperiment: the userId state
    effectDue,      \* useExperiment: the effect has to run for experimentId
    exposed,        \* experiment id -> variant ids reported in its exposures
    converted,      \* experiment id -> variant ids reported in its conversions
                    \* that were made while storage held a user id
    emitted,        \* the events handed to gtag by the latest operation
    outcome,        \* the latest hook / tracking operation and how it ended
    calls,          \* the calls the latest hook / tracking operation made
    tabs,           \* tab -> where its useExperiment effect stands and what it
                    \* has read, written and exposed
    windowScrollY,  \* window.scrollY, in px
    scrollHeight,   \* document.documentElement.scrollHeight, in px
    innerHeight,    \* window.innerHeight, in px
    listeners,      \* the scroll listeners registered on window
    pageOp,         \* the latest step of the page: render, effect, event, ...
    scrollPhase,    \* useScrollPosition: "unmounted", "rendered" (effect
                    \* not yet run) or "mounted"
    scrollMounts,   \* useScrollPosition: instances rendered so far
    scrollY,        \* useScrollPosition: the scrollY state
    scrollProgress, \* useScrollPosition: the scrollProgress state, num / den
    navPhase,       \* Navigation: "unmounted", "rendered" or "mounted"
    navMounts,      \* Navigation: instances rendered so far
    isScrolled,     \* Navigation: the isScrolled state
    mobileMenuOpen, \* Navigation: the mobileMenuOpen state
    navObserved,    \* Navigation: window.scrollY as read by its handler at
                    \* the latest scroll event the instance has handled
    now,            \* performance.now(), in ms
    perfPhase,      \* usePerformanceMonitor: "unmounted", "rendered", "mounted"
    fps,            \* usePerformanceMonitor: the fps state
    shouldReduceQuality, \* usePerformanceMonitor: the shouldReduceQuality state
    frameCount,     \* usePerformanceMonitor: frameCount of the effect
    lastTime,       \* usePerformanceMonitor: lastTime of the effect
    animationFrameId,    \* usePerformanceMonitor: animationFrameId of the effect
    pendingFrames,  \* handles of the animation frame requests not yet run
    isMobile,       \* ParticleSystem: what useIsMobile() returned
    particleCount,  \* ParticleSystem: particleCount of the latest render
    positions,      \* ParticleSystem: the memoised position buffer
    pointsRef,      \* ParticleSystem: "unrendered", or pointsRef.current as
                    \* "null" or "points"
    rotation        \* ParticleSystem: rotation of the points, in 1/10000

vars == << registry, last, memo, hashCall, surveyExp, surveyIndex, tally, storage,
           storageThrows, gtag, experimentId, variant, userId, effectDue,
           exposed, converted, emitted, outcome, calls, tabs, windowScrollY,
           scrollHeight, innerHeight, listeners, pageOp, scrollPhase,
           scrollMounts, scrollY, scrollProgress, navPhase, navMounts,
           isScrolled, mobileMenuOpen, navObserved, now, perfPhase, fps,
           shouldReduceQuality, frameCount, lastTime, animationFrameId,
           pendingFrames, isMobile, particleCount, positions, pointsRef,
           rotation >>

assignVars == << last, memo, hashCall >>
surveyVars == << surveyExp, surveyIndex, tally >>
hookVars   == << storage, storageThrows, gtag, experimentId, variant, userId,
                 effectDue, exposed, converted, emitted, outcome, calls, tabs >>
hookStateVars == << storageThrows, gtag, experimentId, variant, userId,
                    effectDue, exposed, converted, emitted, outcome, calls >>
hookOtherVars == << hookStateVars, tabs >>
windowVars == << windowScrollY, scrollHeight, innerHeight, listeners, pageOp >>
scrollVars == << scrollPhase, scrollMounts, scrollY, scrollProgress >>
navVars    == << navPhase, navMounts, isScrolled, mobileMenuOpen, navObserved >>
perfVars   == << now, perfPhase, fps, shouldReduceQuality, frameCount, lastTime,
                 animationFrameId, pendingFrames >>
particleVars == << isMobile, particleCount, positions, pointsRef, rotation >>
uiVars     == << windowVars, scrollVars, navVars, perfVars, particleVars >>

----------------------------------------------------------------------------
(* Bounds of the model *)

\* Math.random() is drawn from { r / RandomSteps : r \in 0 .. RandomSteps-1 }
RandomSteps == 12

\* the survey buckets the synthetic ids user_0 .. user_<SampleSize-1>
SampleSize == 200

\* a component or hook is rendered anew at most MaxMounts times
MaxMounts == 2

\* performance.now() is followed up to MaxTime ms
MaxTime == 2100

\* the rotation of the particles is followed for MaxFrames frames
MaxFrames == 60

\* tabs of one client that share localStorage
NumTabs == 2

\* the hash path is observed for the synthetic ids user_0 .. user_<HashSample-1>
HashSample == 10

----------------------------------------------------------------------------
(* Strings as sequences of UTF-16 code units *)

heroCTA       == << 104, 101, 114, 111, 67, 84, 65 >>
colorScheme   == << 99, 111, 108, 111, 114, 83, 99, 104, 101, 109, 101 >>
projectLayout == << 112, 114, 111, 106, 101, 99, 116, 76, 97, 121, 111, 117, 116 >>
doesNotExist  == << 100, 111, 101, 115, 45, 110, 111, 116, 45, 101, 120, 105, 115, 116 >>
constructorKey == << 99, 111, 110, 115, 116, 114, 117, 99, 116, 111, 114 >>

user_42  == << 117, 115, 101, 114, 95, 52, 50 >>
user123  == << 117, 115, 101, 114, 49, 50, 51 >>
userPrefix == << 117, 115, 101, 114, 95 >>

emptyString == << >>
\* JavaScript's undefined and null, kept apart from every string
undefined == << -1 >>
null      == << -2 >>

\* JavaScript truthiness of a string | undefined | null
Truthy(s) == s \notin { undefined, null, emptyString }

RECURSIVE DecimalDigits(_)
\* String(i) for a non-negative integer, as code units
DecimalDigits(i) ==
    IF i < 10 THEN << 48 + i >>
    ELSE DecimalDigits(i \div 10) \o << 48 + (i % 10) >>

----------------------------------------------------------------------------
(* The experiment registry *)

\* weights are kept in hundredths
WeightScale == 100

\* a registry whose heroCTA declares the id 'variant-a' twice
MutExperimentsDuplicateId ==
    ( heroCTA :> [ name |-> "Hero CTA Button Text",
                   variants |-> << [ id |-> "control",   name |-> "View Projects",     weight |-> 34 ],
                                   [ id |-> "variant-a", name |-> "See My Work",       weight |-> 33 ],
                                   [ id |-> "variant-a", name |-> "Explore Portfolio", weight |-> 33 ] >> ] )
 @@ ( colorScheme :> [ name |-> "Primary Color Scheme",
                       variants |-> << [ id |-> "control",   name |-> "Blue/Purple", weight |-> 50 ],
                                       [ id |-> "variant-a", name |-> "Green/Blue",  weight |-> 50 ] >> ] )
 @@ ( projectLayout :> [ name |-> "Project Card Layout",
                         variants |-> << [ id |-> "control",   name |-> "Grid Layout", weight |-> 50 ],
                                         [ id |-> "variant-a", name |-> "List Layout", weight |-> 50 ] >> ] )

experiments ==
    ( heroCTA :> [ name |-> "Hero CTA Button Text",
                   variants |-> << [ id |-> "control",   name |-> "View Projects",     weight |-> 34 ],
                                   [ id |-> "variant-a", name |-> "See My Work",       weight |-> 33 ],
                                   [ id |-> "variant-b", name |-> "Explore Portfolio", weight |-> 33 ] >> ] )
 @@ ( colorScheme :> [ name |-> "Primary Color Scheme",
                       variants |-> << [ id |-> "control",   name |-> "Blue/Purple", weight |-> 50 ],
                                       [ id |-> "variant-a", name |-> "Green/Blue",  weight |-> 50 ] >> ] )
 @@ ( projectLayout :> [ name |-> "Project Card Layout",
                         variants |-> << [ id |-> "control",   name |-> "Grid Layout", weight |-> 50 ],
                                         [ id |-> "variant-a", name |-> "List Layout", weight |-> 50 ] >> ] )

\* property names every object literal inherits from Object.prototype
\* (a sample: the lookup experiments[key] finds them although they are no
\* keys of the registry)
ObjectPrototypeKeys == { constructorKey }

\* experiments[experimentId] on the object reg: an own key yields its
\* Experiment, an inherited name yields a truthy value that has no
\* variants property, anything else yields undefined
Lookup(reg, key) ==
    IF key \in DOMAIN reg THEN [ kind |-> "own", variants |-> reg[key].variants ]
    ELSE IF key \in ObjectPrototypeKeys THEN [ kind |-> "inherited", variants |-> << >> ]
    ELSE [ kind |-> "undefined", variants |-> << >> ]

----------------------------------------------------------------------------
(* Integer arithmetic *)

\* radix of the 16-bit halves and limbs
Base == 65536

Int32Zero == [ hi |-> 0, lo |-> 0 ]

\* the shift is by four bits
MutShl4(h) ==
    LET lo == h.lo * 16
    IN  [ hi |-> (h.hi * 16 + lo \div Base) % Base, lo |-> lo % Base ]

\* hash << 5 on a 32-bit integer
Shl5(h) ==
    LET lo == h.lo * 32
    IN  [ hi |-> (h.hi * 32 + lo \div Base) % Base, lo |-> lo % Base ]

\* a - b, kept modulo 2^32
Sub32(a, b) ==
    LET lo == a.lo - b.lo
    IN  [ hi |-> (a.hi - b.hi - (IF lo < 0 THEN 1 ELSE 0)) % Base, lo |-> lo % Base ]

\* a + c for a code unit c, kept modulo 2^32
AddChar(a, c) ==
    LET lo == a.lo + c
    IN  [ hi |-> (a.hi + lo \div Base) % Base, lo |-> lo % Base ]

\* the sign bit of the 32-bit integer
IsNegative32(h) == h.hi >= Base \div 2

\* the sign is kept
MutNoAbs(h) == h

\* Math.abs of a signed 32-bit integer: its magnitude, 0 .. 2^31
Abs32(h) == IF IsNegative32(h) THEN Sub32(Int32Zero, h) ELSE h

\* hash = ((hash << 5) - hash) + char; hash = hash & hash
HashStep(hash, char) == AddChar(Sub32(Shl5(hash), hash), char)

RECURSIVE hashLoop(_, _)
\* the for loop of hashString; hashes lists the values of hash so far, the
\* initial 0 first, so that iteration i reads hashes[i] and str[i]
hashLoop(str, hashes) ==
    IF Len(hashes) > Len(str) THEN hashes[Len(hashes)]
    ELSE hashLoop(str, Append(hashes, HashStep(hashes[Len(hashes)], str[Len(hashes)])))

\* hashString(str): the magnitude of the 32-bit rolling hash
hashString(str) == Abs32(hashLoop(str, << Int32Zero >>))

\* little-endian limbs of a hash value
HashLimbs(h) == << h.lo, h.hi >>

\* the divisor is 2^31, the largest hash
MutDivisorTwoPow31 == << 0, 32768 >>

\* Number.MAX_SAFE_INTEGER = 2^53 - 1
MAX_SAFE_INTEGER == << 65535, 65535, 65535, 31 >>

RECURSIVE MulCarry(_, _, _)
MulCarry(n, k, carry) ==
    IF n = << >> THEN (IF carry = 0 THEN << >> ELSE << carry >>)
    ELSE LET p == Head(n) * k + carry
         IN  << p % Base >> \o MulCarry(Tail(n), k, p \div Base)

\* n * k for limbs n and a small non-negative integer k
MulSmall(n, k) == MulCarry(n, k, 0)

Limb(n, i) == IF i <= Len(n) THEN n[i] ELSE 0

\* a <= b on limbs
LimbsLeq(a, b) ==
    LET m == IF Len(a) > Len(b) THEN Len(a) ELSE Len(b)
        differ == { i \in 1 .. m : Limb(a, i) # Limb(b, i) }
    IN  IF differ = {} THEN TRUE
        ELSE LET top == CHOOSE i \in differ : \A j \in differ : j <= i
             IN  Limb(a, top) < Limb(b, top)

\* the comparison is strict
MutStrictlyLess(num, den, cumulativeWeight) ==
    ~LimbsLeq(MulSmall(den, cumulativeWeight), MulSmall(num, WeightScale))

\* num / den <= cumulativeWeight, the weight in hundredths
FractionLeqWeight(num, den, cumulativeWeight) ==
    LimbsLeq(MulSmall(num, WeightScale), MulSmall(den, cumulativeWeight))

----------------------------------------------------------------------------
(* getVariant *)

RECURSIVE CumulativeWeight(_, _)
\* cumulativeWeight after the loop has added variants 1 .. i
CumulativeWeight(variants, i) ==
    IF i = 0 THEN 0 ELSE CumulativeWeight(variants, i - 1) + variants[i].weight

RECURSIVE WalkFrom(_, _, _, _)
\* the for-of loop from position i on: the position whose variant is
\* returned, or 0 when the loop ends without returning
WalkFrom(variants, num, den, i) ==
    IF i > Len(variants) THEN 0
    ELSE IF FractionLeqWeight(num, den, CumulativeWeight(variants, i)) THEN i
    ELSE WalkFrom(variants, num, den, i + 1)

Walk(variants, num, den) == WalkFrom(variants, num, den, 1)

\* the value of Math.random() for the draw r
RandomNum(r) == << r >>
RandomDen == << RandomSteps >>

\* the last declared variant is returned instead
MutFallthroughLast(variants) ==
    IF Len(variants) > 0 THEN variants[Len(variants)].id ELSE "control"

\* the return after the random loop ended without returning
FallthroughVariant(variants) == "control"

\* lines 71-82: the walk against Math.random()
RandomPath(variants, r) ==
    LET i == Walk(variants, RandomNum(r), RandomDen)
    IN  IF i # 0 THEN variants[i].id ELSE FallthroughVariant(variants)

\* the user id is never looked at: every call draws
MutNeverHashPath(uid) == FALSE

\* only an absent user id takes the random path: '' is hashed
MutHashEmptyString(uid) == uid # undefined

\* if (userId)
UsesHashPath(uid) == Truthy(uid)

\* the string handed to hashString
HashInput(expId, uid) == uid \o expId

\* getVariant(experimentId, userId) when Math.random() would yield r:
\* the returned id, or that the call raised
getVariant(reg, expId, uid, r) ==
    LET experiment == Lookup(reg, expId)
    IN  IF experiment.kind = "undefined" THEN [ threw |-> FALSE, value |-> "control" ]
        ELSE IF experiment.kind = "inherited" THEN [ threw |-> TRUE, value |-> "TypeError" ]
        ELSE LET hashed == IF UsesHashPath(uid)
                           THEN Walk(experiment.variants,
                                     HashLimbs(hashString(HashInput(expId, uid))),
                                     MAX_SAFE_INTEGER)
                           ELSE 0
             IN  IF hashed # 0
                 THEN [ threw |-> FALSE, value |-> experiment.variants[hashed].id ]
                 ELSE [ threw |-> FALSE, value |-> RandomPath(experiment.variants, r) ]

----------------------------------------------------------------------------
(* Inputs *)

ExperimentIds == { heroCTA, colorScheme, projectLayout, doesNotExist, constructorKey }

UserIds == { user_42, user123 }

UserArgs == UserIds \cup { undefined, emptyString }

Randoms == 0 .. RandomSteps - 1

NoCall == [ op |-> "none" ]

\* what the observer notes of an operation that has called nothing
NoCalls == [ getVariant |-> << >>, exposure |-> << >>, conversionType |-> "none" ]

VariantIds(variants) == { variants[i].id : i \in 1 .. Len(variants) }

----------------------------------------------------------------------------
(* Initial states *)

AssignInit ==
    /\ last = NoCall
    /\ memo = NoCall
    /\ hashCall = NoCall

SurveyIdle ==
    /\ surveyExp = heroCTA
    /\ surveyIndex = 0
    /\ tally = [ id \in VariantIds(experiments[heroCTA].variants) |-> 0 ]

HookExperimentIds == { heroCTA, colorScheme, doesNotExist, constructorKey }

NothingReported == [ expId \in HookExperimentIds |-> {} ]

\* the state starts with a value that is no variant id
MutInitialVariant == "default"

\* useState('control')
InitialVariant == "control"

Tabs == 1 .. NumTabs

\* a tab that has rendered a component using useExperiment(expId) and whose
\* effect has not started: storedUserId is not assigned yet
TabRendered(expId) ==
    [ pc |-> "rendered", experimentId |-> expId, storedUserId |-> undefined,
      wrote |-> FALSE, variant |-> "control" ]

\* no other tab takes part
TabsIdle == [ t \in Tabs |-> TabRendered(heroCTA) ]

\* useState('')
InitialUserId == emptyString

HookIdle ==
    /\ storage = null
    /\ storageThrows = FALSE
    /\ gtag = "absent"
    /\ experimentId = heroCTA
    /\ variant = InitialVariant
    /\ userId = InitialUserId
    /\ effectDue = TRUE
    /\ exposed = NothingReported
    /\ converted = NothingReported
    /\ emitted = << >>
    /\ outcome = NoCall
    /\ calls = NoCalls
    /\ tabs = TabsIdle

\* a page at rest: nothing mounted, no listener registered
WindowIdle ==
    /\ windowScrollY = 0
    /\ scrollHeight = 1000
    /\ innerHeight = 1000
    /\ listeners = {}
    /\ pageOp = "none"

\* no instance of useScrollPosition has been rendered
ScrollIdle ==
    /\ scrollPhase = "unmounted"
    /\ scrollMounts = 0
    /\ scrollY = 0
    /\ scrollProgress = [ num |-> 0, den |-> 1 ]

\* no instance of Navigation has been rendered
NavIdle ==
    /\ navPhase = "unmounted"
    /\ navMounts = 0
    /\ isScrolled = FALSE
    /\ mobileMenuOpen = FALSE
    /\ navObserved = << >>

\* no component using usePerformanceMonitor has been rendered
PerfIdle ==
    /\ now = 0
    /\ perfPhase = "unmounted"
    /\ fps = 60
    /\ shouldReduceQuality = FALSE
    /\ frameCount = 0
    /\ lastTime = 0
    /\ animationFrameId = 0
    /\ pendingFrames = {}

\* ParticleSystem has not been rendered
ParticlesIdle ==
    /\ isMobile = FALSE
    /\ particleCount = 0
    /\ positions = [ length |-> 0, written |-> {} ]
    /\ pointsRef = "unrendered"
    /\ rotation = [ x |-> 0, y |-> 0 ]

UiIdle ==
    /\ WindowIdle
    /\ ScrollIdle
    /\ NavIdle
    /\ PerfIdle
    /\ ParticlesIdle

\* the module as shipped, nothing called yet
Init ==
    /\ registry = experiments
    /\ AssignInit
    /\ SurveyIdle
    /\ HookIdle
    /\ UiIdle

----------------------------------------------------------------------------
(* Calls of getVariant *)

\* whether getVariant(expId, uid) reaches Math.random()
DrawsRandom(reg, expId, uid) ==
    LET experiment == Lookup(reg, expId)
    IN  /\ experiment.kind = "own"
        /\ \/ ~UsesHashPath(uid)
           \/ Walk(experiment.variants, HashLimbs(hashString(HashInput(expId, uid))),
                   MAX_SAFE_INTEGER) = 0

NoDraw == -1

\* the values Math.random() may return to the call getVariant(expId, uid):
\* NoDraw alone when the call does not reach it
Draws(reg, expId, uid) == IF DrawsRandom(reg, expId, uid) THEN Randoms ELSE { NoDraw }

\* what a call leaves behind for the observer: its arguments, the value
\* Math.random() returned to it, the result, and whether the remembered call
\* had the same arguments
CallRecord(expId, uid, r, isRepeat) ==
    LET res == getVariant(registry, expId, uid, r)
    IN  [ op |-> "getVariant", experimentId |-> expId, userId |-> uid,
          random |-> r,
          threw |-> res.threw, value |-> res.value, repeat |-> isRepeat ]

SameArguments(call, expId, uid) ==
    /\ call.op = "getVariant"
    /\ call.experimentId = expId
    /\ call.userId = uid

\* getVariant keeps the user id it was called with as the stored id
MutPersistsUserId(reg, stored, expId, uid) ==
    [ registry |-> reg, storage |-> IF Truthy(uid) THEN uid ELSE stored ]

\* the registry and the stored user id after the body of getVariant: it
\* assigns to its locals (cumulativeWeight, hash, random) only, and holds no
\* localStorage access and no module-level cache
AfterGetVariant(reg, stored, expId, uid) == [ registry |-> reg, storage |-> stored ]

\* a caller invokes getVariant(expId, uid); r is what Math.random() yields
GetVariantCall(expId, uid) ==
    /\ \E r \in Draws(registry, expId, uid) :
          last' = CallRecord(expId, uid, r, SameArguments(memo, expId, uid))
    /\ memo' = memo
    /\ registry' = AfterGetVariant(registry, storage, expId, uid).registry
    /\ storage' = AfterGetVariant(registry, storage, expId, uid).storage
    /\ UNCHANGED << hashCall, surveyVars, hookOtherVars, uiVars >>

\* the same call with a user id, kept for comparison with later calls
GetVariantRemembered(expId, uid) ==
    /\ Truthy(uid)
    /\ \E r \in Draws(registry, expId, uid) :
          last' = CallRecord(expId, uid, r, FALSE)
    /\ memo' = last'
    /\ registry' = AfterGetVariant(registry, storage, expId, uid).registry
    /\ storage' = AfterGetVariant(registry, storage, expId, uid).storage
    /\ UNCHANGED << hashCall, surveyVars, hookOtherVars, uiVars >>

Next ==
    \E expId \in ExperimentIds, uid \in UserArgs :
        \/ GetVariantCall(expId, uid)
        \/ GetVariantRemembered(expId, uid)

Spec == Init /\ [][Next]_vars

----------------------------------------------------------------------------
(* C1 *)

\* C1 (determinism): a call getVariant(E, U) with E a key of the registry and
\* U non-empty returns the variant id that the remembered call with the same
\* (E, U) returned, does not raise, and draws no random number.
C1Determinism ==
    ( /\ last.op = "getVariant"
      /\ Truthy(last.userId)
      /\ last.experimentId \in DOMAIN registry )
    => /\ ~last.threw
       /\ last.random = NoDraw
       /\ SameArguments(memo, last.experimentId, last.userId) => last.value = memo.value

C1Witness ==
    /\ last.op = "getVariant"
    /\ last.repeat
    /\ last.experimentId = heroCTA
    /\ last.userId = user_42
    /\ last.value = memo.value

----------------------------------------------------------------------------
(* C3 *)

\* C3 (unknown-experiment fallback): a call getVariant(E, U) with E no key of
\* the registry returns 'control' and does not raise, whatever U is.
C3UnknownFallback ==
    ( /\ last.op = "getVariant"
      /\ last.experimentId \notin DOMAIN registry )
    => /\ ~last.threw
       /\ last.value = "control"

----------------------------------------------------------------------------
(* C8 *)

PositiveWeightPositions(variants) == { i \in 1 .. Len(variants) : variants[i].weight > 0 }

\* C8 (no-userId path): a call on a registered experiment with userId absent
\* or '' draws a random number and returns what the walk against that draw
\* yields; and for an experiment with at least two positive-weight variants
\* every positive-weight variant is the result of some draw.
C8NoUserIdRandom ==
    /\ ( /\ last.op = "getVariant"
         /\ last.userId \in { undefined, emptyString }
         /\ last.experimentId \in DOMAIN registry )
       => /\ last.random \in Randoms
          /\ ~last.threw
          /\ last.value = RandomPath(registry[last.experimentId].variants, last.random)
    /\ \A expId \in DOMAIN registry, uid \in { undefined, emptyString } :
          LET variants == registry[expId].variants
          IN  Cardinality(PositiveWeightPositions(variants)) >= 2
              => \A i \in PositiveWeightPositions(variants) :
                    \E r \in Randoms : getVariant(registry, expId, uid, r).value = variants[i].id

C8Witness ==
    /\ last.op = "getVariant"
    /\ last.userId = emptyString
    /\ last.experimentId = heroCTA
    /\ last.random \in Randoms
    /\ last.value = "variant-b"

----------------------------------------------------------------------------
(* C9 *)

\* the variants with positions i and j exchanged
SwapVariants(variants, i, j) ==
    [ k \in 1 .. Len(variants) |->
        IF k = i THEN variants[j] ELSE IF k = j THEN variants[i] ELSE variants[k] ]

SwapInRegistry(reg, expId, i, j) ==
    [ reg EXCEPT ![expId].variants = SwapVariants(reg[expId].variants, i, j) ]

\* the synthetic ids user_0, user_1, ...
SyntheticUserId(i) == userPrefix \o DecimalDigits(i)

ProbeUserIds == UserIds \cup { SyntheticUserId(i) : i \in 0 .. SampleSize - 1 }

\* C9 (order sensitivity): for every registered experiment and every two
\* positions of its variant list, exchanging the two variants changes what
\* getVariant returns for at least one non-empty user id.
C9OrderSensitivity ==
    \A expId \in DOMAIN registry :
        \A i, j \in 1 .. Len(registry[expId].variants) :
            i < j => \E uid \in ProbeUserIds :
                        getVariant(SwapInRegistry(registry, expId, i, j), expId, uid, 0).value
                            # getVariant(registry, expId, uid, 0).value

----------------------------------------------------------------------------
(* The module loaded with an edited experiments literal *)

\* the shipped literal with the variants of heroCTA replaced
WithHeroVariants(variants) == [ experiments EXCEPT ![heroCTA].variants = variants ]

\* weights 0.5 + 0.4 = 0.9
UnderweightVariants ==
    << [ id |-> "control",   name |-> "View Projects", weight |-> 50 ],
       [ id |-> "variant-a", name |-> "See My Work",   weight |-> 40 ] >>

\* weights 0.6 + 0.5 = 1.1
OverweightVariants ==
    << [ id |-> "control",   name |-> "View Projects", weight |-> 60 ],
       [ id |-> "variant-a", name |-> "See My Work",   weight |-> 50 ] >>

\* weights 0 + 0
ZeroWeightVariants ==
    << [ id |-> "variant-a", name |-> "See My Work",       weight |-> 0 ],
       [ id |-> "variant-b", name |-> "Explore Portfolio", weight |-> 0 ] >>

CandidateLiterals ==
    { experiments,
      WithHeroVariants(UnderweightVariants),
      WithHeroVariants(OverweightVariants),
      WithHeroVariants(ZeroWeightVariants),
      WithHeroVariants(<< >>) }

\* evaluating the module: the literal becomes the experiments object as it
\* is written; nothing inspects the variants or their weights
LoadExperiments(literal) == [ status |-> "loaded", registry |-> literal ]

InitConfig ==
    /\ \E literal \in CandidateLiterals :
          /\ LoadExperiments(literal).status = "loaded"
          /\ registry = LoadExperiments(literal).registry
    /\ AssignInit
    /\ SurveyIdle
    /\ HookIdle
    /\ UiIdle

ConfigExperimentIds == { heroCTA, colorScheme }

ConfigUserArgs == { user_42, undefined }

NextConfig ==
    \E expId \in ConfigExperimentIds, uid \in ConfigUserArgs :
        GetVariantCall(expId, uid)

SpecConfig == InitConfig /\ [][NextConfig]_vars

----------------------------------------------------------------------------
(* C6 *)

\* the data-model invariant of an experiment: variants non-empty and the
\* weights summing to 1.0
ValidExperiment(experiment) ==
    /\ Len(experiment.variants) > 0
    /\ CumulativeWeight(experiment.variants, Len(experiment.variants)) = WeightScale

\* C6 (weight-sum enforcement): an experiment whose variant list is empty or
\* whose weights do not sum to 1.0 is never in use: loading its registry
\* raises a configuration error, so no getVariant call is ever served from it.
C6WeightSumEnforced ==
    ( /\ last.op = "getVariant"
      /\ last.experimentId \in DOMAIN registry )
    => ValidExperiment(registry[last.experimentId])

----------------------------------------------------------------------------
(* C7 *)

\* the latest call went through the random walk to its end
RandomWalkFellThrough ==
    /\ last.op = "getVariant"
    /\ last.experimentId \in DOMAIN registry
    /\ last.random \in Randoms
    /\ Walk(registry[last.experimentId].variants, RandomNum(last.random), RandomDen) = 0

\* the latest call went through the hash walk to its end
HashWalkFellThrough ==
    /\ last.op = "getVariant"
    /\ last.experimentId \in DOMAIN registry
    /\ Truthy(last.userId)
    /\ Walk(registry[last.experimentId].variants,
            HashLimbs(hashString(HashInput(last.experimentId, last.userId))),
            MAX_SAFE_INTEGER) = 0

----------------------------------------------------------------------------
(* A bucketing survey: getVariant(E, 'user_' + i) for i = 0, 1, 2, ... *)

InitSurvey ==
    /\ registry = experiments
    /\ AssignInit
    /\ HookIdle
    /\ UiIdle
    /\ surveyExp \in DOMAIN experiments
    /\ surveyIndex = 0
    /\ tally = [ id \in VariantIds(experiments[surveyExp].variants) |-> 0 ]

\* the next synthetic user id is bucketed and counted
SurveyStep ==
    /\ surveyIndex < SampleSize
    /\ \E r \in Draws(registry, surveyExp, SyntheticUserId(surveyIndex)) :
          LET res == getVariant(registry, surveyExp, SyntheticUserId(surveyIndex), r)
          IN  /\ ~res.threw
              /\ res.value \in DOMAIN tally
              /\ tally' = [ tally EXCEPT ![res.value] = @ + 1 ]
    /\ surveyIndex' = surveyIndex + 1
    /\ UNCHANGED << registry, surveyExp, assignVars, hookVars, uiVars >>

NextSurvey == SurveyStep

SpecSurvey == InitSurvey /\ [][NextSurvey]_vars

----------------------------------------------------------------------------
(* C2 *)

AbsDiff(a, b) == IF a >= b THEN a - b ELSE b - a

\* C2 (distribution fidelity): once the survey has bucketed all its user ids,
\* the fraction assigned to each variant of weight >= 0.1 is within 1.5% of
\* that variant's weight.
C2DistributionFidelity ==
    surveyIndex = SampleSize
    => \A i \in 1 .. Len(registry[surveyExp].variants) :
          LET v == registry[surveyExp].variants[i]
          IN  v.weight >= 10
              => AbsDiff(tally[v.id] * 1000, v.weight * 10 * SampleSize)
                    <= 15 * SampleSize

----------------------------------------------------------------------------
(* useExperiment and the tracking functions *)

\* `user_${Date.now()}_${Math.random().toString(36).substr(2, 9)}` for one
\* reading of the clock and two draws
generateUserId(clock, draw) == userPrefix \o << clock >> \o << 95 >> \o << draw >>

GeneratedUserIds == { generateUserId(clock, draw) : clock \in { 49 }, draw \in { 97, 122 } }

\* what the caller may pass as conversionType
ConversionArgs == { "undefined", "scroll" }

\* an omitted conversionType is handed on as it is
MutConversionTypeAsPassed(arg) == arg

\* conversionType: string = 'click'
ConversionType(arg) == IF arg = "undefined" THEN "click" ELSE arg

\* the user id is not handed on: every conversion is bucketed by a fresh draw
MutConversionNoUser(stored) == undefined

\* without a stored id the conversion is bucketed as a fixed user
MutConversionDefaultUser(stored) == IF Truthy(stored) THEN stored ELSE user_42

\* userId || undefined, the argument trackConversion hands to getVariant
ConversionUser(stored) == IF Truthy(stored) THEN stored ELSE undefined

\* an event handed to gtag; user is the observer's note of the user id the
\* operation had read from storage and is no part of the payload
Event(name, expId, variantId, conversionType, user) ==
    [ name |-> name, experiment_id |-> expId, variant_id |-> variantId,
      conversion_type |-> conversionType, user |-> user ]

\* how an operation ended: cause is "none" when it returned
Outcome(op, expId, cause, variantId) ==
    [ op |-> op, experimentId |-> expId, threw |-> cause # "none",
      cause |-> cause, variant_id |-> variantId ]

\* the histories after the event has been handed to gtag
Reported(event) ==
    /\ exposed' = IF event.name = "experiment_exposure"
                  THEN [ exposed EXCEPT ![event.experiment_id] = @ \cup { event.variant_id } ]
                  ELSE exposed
    /\ converted' = IF event.name = "experiment_conversion" /\ Truthy(event.user)
                    THEN [ converted EXCEPT ![event.experiment_id] = @ \cup { event.variant_id } ]
                    ELSE converted

\* the gtag call of both tracking functions, with what is to follow it
\* if (typeof window !== 'undefined' && window.gtag) window.gtag('event', ...)
Report(op, event) ==
    \/ /\ gtag = "absent"
       /\ emitted' = << >>
       /\ UNCHANGED << exposed, converted >>
       /\ outcome' = Outcome(op, event.experiment_id, "none", event.variant_id)
    \/ /\ gtag = "ok"
       /\ emitted' = << event >>
       /\ Reported(event)
       /\ outcome' = Outcome(op, event.experiment_id, "none", event.variant_id)
    \/ /\ gtag = "throws"
       /\ emitted' = << >>
       /\ UNCHANGED << exposed, converted >>
       /\ outcome' = Outcome(op, event.experiment_id, "gtag", event.variant_id)

\* trackExperimentExposure(experimentId, variant)
trackExperimentExposure(expId, variantId, user) ==
    Report("effect", Event("experiment_exposure", expId, variantId, "none", user))

\* the effect stores a fresh id over the one that is there
MutAlwaysGenerate(stored, generated) == generated

\* let storedUserId = localStorage.getItem('ab_user_id');
\* if (!storedUserId) storedUserId = generateUserId()
GetOrCreateUserId(stored, generated) == IF Truthy(stored) THEN stored ELSE generated

\* the effect tracks the exposure before and after setVariant
MutExposureTwice(expId, variantId) ==
    << [ experimentId |-> expId, variant_id |-> variantId ],
       [ experimentId |-> expId, variant_id |-> variantId ] >>

\* the calls of trackExperimentExposure in one run of the effect that has
\* computed assignedVariant: the one call that ends the effect
ExposureCalls(expId, assignedVariant) ==
    << [ experimentId |-> expId, variant_id |-> assignedVariant ] >>

\* the observer's note of a call getVariant(expId, uid)
GetVariantCalls(expId, uid) == << [ experimentId |-> expId, userId |-> uid ] >>

\* the effect of useExperiment runs for the current experimentId; generated
\* is what generateUserId() would return.  An exception leaves the effect at
\* the statement that raised it, with the storage write and the state
\* updates made before it in place
RunEffect(generated) ==
    /\ effectDue
    /\ effectDue' = FALSE
    /\ UNCHANGED << registry, assignVars, surveyVars, storageThrows, gtag,
                    experimentId, tabs, uiVars >>
    /\ IF storageThrows
       THEN /\ outcome' = Outcome("effect", experimentId, "storage", "none")
            /\ emitted' = << >>
            /\ calls' = NoCalls
            /\ UNCHANGED << storage, variant, userId, exposed, converted >>
       ELSE LET storedUserId == GetOrCreateUserId(storage, generated)
            IN  /\ storage' = storedUserId
                /\ userId' = storedUserId
                /\ \E r \in Draws(registry, experimentId, storedUserId) :
                      LET res == getVariant(registry, experimentId, storedUserId, r)
                      IN  IF res.threw
                          THEN /\ outcome' = Outcome("effect", experimentId,
                                                     "getVariant", "none")
                               /\ emitted' = << >>
                               /\ calls' = [ NoCalls EXCEPT !.getVariant =
                                               GetVariantCalls(experimentId, storedUserId) ]
                               /\ UNCHANGED << variant, exposed, converted >>
                          ELSE /\ variant' = res.value
                               /\ calls' = [ NoCalls EXCEPT
                                               !.getVariant =
                                                   GetVariantCalls(experimentId, storedUserId),
                                               !.exposure =
                                                   ExposureCalls(experimentId, res.value) ]
                               /\ trackExperimentExposure(experimentId, res.value,
                                                          storedUserId)

\* a render with another experimentId starts again from 'control'
MutResetOnChange(previous) == InitialVariant

\* the variant state on a later render: useState keeps what was last set
RenderedVariant(previous) == previous

\* the component is rendered with another experimentId: the hook returns the
\* variant state as it is and the effect is scheduled
ChangeExperiment(expId) ==
    /\ expId # experimentId
    /\ experimentId' = expId
    /\ effectDue' = TRUE
    /\ emitted' = << >>
    /\ calls' = NoCalls
    /\ variant' = RenderedVariant(variant)
    /\ outcome' = Outcome("render", expId, "none", variant')
    /\ UNCHANGED << registry, assignVars, surveyVars, storage, storageThrows, gtag,
                    userId, exposed, converted, tabs, uiVars >>

\* trackConversion(experimentId, conversionType)
trackConversion(expId, typeArg) ==
    /\ UNCHANGED << registry, assignVars, surveyVars, storage, storageThrows, gtag,
                    experimentId, variant, userId, effectDue, tabs, uiVars >>
    /\ IF storageThrows
       THEN /\ outcome' = Outcome("trackConversion", expId, "storage", "none")
            /\ emitted' = << >>
            /\ calls' = [ NoCalls EXCEPT !.conversionType = typeArg ]
            /\ UNCHANGED << exposed, converted >>
       ELSE /\ calls' = [ NoCalls EXCEPT
                            !.getVariant = GetVariantCalls(expId, ConversionUser(storage)),
                            !.conversionType = typeArg ]
            /\ \E r \in Draws(registry, expId, ConversionUser(storage)) :
                  LET res == getVariant(registry, expId, ConversionUser(storage), r)
                  IN  IF res.threw
                      THEN /\ outcome' = Outcome("trackConversion", expId,
                                                 "getVariant", "none")
                           /\ emitted' = << >>
                           /\ UNCHANGED << exposed, converted >>
                      ELSE Report("trackConversion",
                                  Event("experiment_conversion", expId, res.value,
                                        ConversionType(typeArg), storage))

InitialStorage == { null, emptyString, user_42 }

\* a page that has just rendered a component using useExperiment
InitHook ==
    /\ registry = experiments
    /\ AssignInit
    /\ SurveyIdle
    /\ storage \in InitialStorage
    /\ storageThrows \in BOOLEAN
    /\ gtag \in { "absent", "ok", "throws" }
    /\ experimentId \in HookExperimentIds
    /\ variant = InitialVariant
    /\ userId = InitialUserId
    /\ effectDue = TRUE
    /\ exposed = NothingReported
    /\ converted = NothingReported
    /\ emitted = << >>
    /\ outcome = NoCall
    /\ calls = NoCalls
    /\ tabs = TabsIdle
    /\ UiIdle

NextHook ==
    \/ \E generated \in GeneratedUserIds : RunEffect(generated)
    \/ \E expId \in HookExperimentIds : ChangeExperiment(expId)
    \/ \E expId \in HookExperimentIds, typeArg \in ConversionArgs :
          trackConversion(expId, typeArg)

SpecHook == InitHook /\ [][NextHook]_vars

----------------------------------------------------------------------------
(* C4 *)

\* C4 (declared variant): while the experimentId argument is a registered
\* experiment the hook's variant state, which is what it returns on a render,
\* is the id of one of that experiment's variants; and every id that
\* getVariant returned to the effect or to trackConversion for a registered
\* experiment is the id of one of that experiment's variants.
C4DeclaredVariant ==
    /\ experimentId \in DOMAIN registry
       => variant \in VariantIds(registry[experimentId].variants)
    /\ ( /\ outcome.op \in { "effect", "trackConversion" }
         /\ outcome.experimentId \in DOMAIN registry
         /\ outcome.cause \notin { "storage", "getVariant" } )
       => outcome.variant_id \in VariantIds(registry[outcome.experimentId].variants)

C4Witness ==
    /\ ~effectDue
    /\ experimentId = colorScheme
    /\ outcome.op = "effect"
    /\ ~outcome.threw
    /\ variant = "control"
    /\ exposed[heroCTA] # {}

----------------------------------------------------------------------------
(* C5 *)

\* C5 (exposure/conversion consistency): for every experiment, every variant
\* id reported in a conversion made while storage held a user id equals every
\* variant id reported in an exposure of that experiment.
C5ExposureConversionConsistent ==
    \A expId \in HookExperimentIds :
        \A x \in exposed[expId], c \in converted[expId] : c = x

C5Witness ==
    /\ exposed[heroCTA] # {}
    /\ converted[heroCTA] # {}
    /\ exposed[colorScheme] # {}
    /\ converted[colorScheme] # {}

----------------------------------------------------------------------------
(* C10 *)

\* C10 (reporting never propagates failures): neither the effect, which calls
\* trackExperimentExposure, nor trackConversion ends in an exception caused
\* by window.gtag or by localStorage.
C10ReportingNeverThrows ==
    ~ ( /\ outcome.op \in { "effect", "trackConversion" }
        /\ outcome.threw
        /\ outcome.cause \in { "gtag", "storage" } )

----------------------------------------------------------------------------
(* C11 *)

\* C11 (exposure once per assignment): no run of the effect calls
\* trackExperimentExposure more than once; a run that has computed a variant
\* (getVariant returned to it) calls it exactly once, after that one
\* getVariant call, with the hook's experimentId and with the variant id that
\* is then the hook's variant state, which the hook returns from then on; and
\* trackConversion neither calls trackExperimentExposure nor hands an
\* exposure event to gtag.
C11ExposureOncePerAssignment ==
    /\ outcome.op = "effect" => Len(calls.exposure) <= 1
    /\ ( /\ outcome.op = "effect"
         /\ outcome.cause \notin { "storage", "getVariant" } )
       => /\ Len(calls.getVariant) = 1
          /\ Len(calls.exposure) = 1
          /\ calls.exposure[1].experimentId = experimentId
          /\ calls.exposure[1].experimentId = calls.getVariant[1].experimentId
          /\ calls.exposure[1].variant_id = variant
    /\ outcome.op = "trackConversion"
       => /\ calls.exposure = << >>
          /\ \A i \in 1 .. Len(emitted) : emitted[i].name # "experiment_exposure"

C11Witness ==
    /\ outcome.op = "effect"
    /\ ~outcome.threw
    /\ experimentId = colorScheme
    /\ Len(calls.exposure) = 1
    /\ calls.exposure[1].variant_id = "control"
    /\ Len(emitted) = 1
    /\ converted[heroCTA] # {}

----------------------------------------------------------------------------
(* C12 *)

----------------------------------------------------------------------------
(* C15 *)

\* the variant ids getVariant may return to trackConversion(expId) in the
\* current state
ConversionVariants(expId) ==
    { getVariant(registry, expId, ConversionUser(storage), r).value :
        r \in Draws(registry, expId, ConversionUser(storage)) }

\* C15 (event payloads): an operation hands at most one event to gtag; the
\* event of an effect run is named 'experiment_exposure' and carries the
\* hook's experimentId and the assigned variant id; the event of
\* trackConversion is named 'experiment_conversion' and carries the
\* experiment id of the call, a variant id that getVariant returns for it, and
\* the conversion type of the call, 'click' when the caller has omitted it;
\* without window.gtag nothing is emitted.
C15EventPayloads ==
    /\ Len(emitted) <= 1
    /\ gtag = "absent" => emitted = << >>
    /\ \A i \in 1 .. Len(emitted) :
          LET event == emitted[i]
          IN  /\ outcome.op \in { "effect", "trackConversion" }
              /\ outcome.op = "effect"
                 => /\ event.name = "experiment_exposure"
                    /\ event.experiment_id = experimentId
                    /\ event.variant_id = variant
                    /\ event.conversion_type = "none"
              /\ outcome.op = "trackConversion"
                 => /\ event.name = "experiment_conversion"
                    /\ event.experiment_id = outcome.experimentId
                    /\ event.experiment_id = calls.getVariant[1].experimentId
                    /\ event.variant_id \in ConversionVariants(event.experiment_id)
                    /\ event.conversion_type =
                          IF calls.conversionType = "undefined"
                          THEN "click" ELSE calls.conversionType

C15Witness ==
    /\ outcome.op = "trackConversion"
    /\ calls.conversionType = "undefined"
    /\ Len(emitted) = 1
    /\ emitted[1].conversion_type = "click"
    /\ emitted[1].experiment_id = heroCTA
    /\ exposed[heroCTA] # {}

----------------------------------------------------------------------------
(* C13 *)

\* C13 (getVariant is effect-free): a call of getVariant, for a registered or
\* an unknown experiment and with or without a user id, leaves the registry,
\* the stored user id and every state of the hook and of the tracking
\* functions as they were; and what a call produced is what getVariant yields
\* for its arguments, the shipped registry and the number it drew.
C13GetVariantEffectFree ==
    /\ [][ /\ registry' = registry
           /\ storage' = storage
           /\ UNCHANGED << variant, userId, exposed, converted, emitted >> ]_vars
    /\ [] ( last.op = "getVariant"
            => LET res == getVariant(experiments, last.experimentId, last.userId,
                                     last.random)
               IN  /\ last.threw = res.threw
                   /\ last.value = res.value )

C13Witness ==
    /\ last.op = "getVariant"
    /\ last.experimentId = doesNotExist
    /\ last.userId = user123
    /\ memo.op = "getVariant"
    /\ memo.experimentId = heroCTA
    /\ registry = experiments
    /\ storage = null

----------------------------------------------------------------------------
(* C14 *)

\* the data-model invariant of the design: variants non-empty, variant ids
\* unique, every weight in (0, 1], and the weights summing to 1.0
DataModelInvariant(experiment) ==
    LET variants == experiment.variants
    IN  /\ Len(variants) > 0
        /\ \A i, j \in 1 .. Len(variants) : variants[i].id = variants[j].id => i = j
        /\ \A i \in 1 .. Len(variants) :
              /\ variants[i].weight > 0
              /\ variants[i].weight <= WeightScale
        /\ CumulativeWeight(variants, Len(variants)) = WeightScale

\* C14 (shipped registry is valid): the registry in use holds exactly heroCTA,
\* colorScheme and projectLayout, and each of them has a non-empty variant
\* list with unique ids, every weight in (0, 1] and weights that sum to 1.0.
C14ShippedRegistryValid ==
    /\ DOMAIN registry = { heroCTA, colorScheme, projectLayout }
    /\ \A expId \in DOMAIN registry : DataModelInvariant(registry[expId])

C14Witness ==
    /\ registry = experiments
    /\ Len(registry[heroCTA].variants) = 3
    /\ Len(registry[colorScheme].variants) = 2
    /\ last.op = "getVariant"
    /\ last.experimentId = projectLayout
    /\ last.value \in { "control", "variant-a" }

----------------------------------------------------------------------------
(* The window, and the hook useScrollPosition *)

\* window.scrollY in px: above the top (overscroll), the top, around the
\* threshold of Navigation, halfway and the bottom of a 1000 px scroll range
ScrollPositions == { -40, 0, 50, 51, 500, 1000 }

\* document heights in px: shorter than, equal to and longer than the window
ScrollHeights == { 900, 1000, 2000 }

InnerHeights == { 1000 }

\* the handleScroll closure of the given instance of the given owner
Handler(owner, instance) == [ owner |-> owner, instance |-> instance ]

Registered(owner) == { l \in listeners : l.owner = owner }

\* the quotient is taken whatever the scrollable height is
MutProgressDividesAlways(currentScrollY, scrollable) ==
    [ num |-> currentScrollY, den |-> scrollable ]

\* scrollHeight > 0 ? currentScrollY / scrollHeight : 0, the quotient kept
\* as numerator and denominator
Progress(currentScrollY, scrollable) ==
    IF scrollable > 0
    THEN [ num |-> currentScrollY, den |-> scrollable ]
    ELSE [ num |-> 0, den |-> 1 ]

\* the states handleScroll sets when it reads the given window
handleScroll(currentScrollY, documentScrollHeight, windowInnerHeight) ==
    [ scrollY |-> currentScrollY,
      scrollProgress |-> Progress(currentScrollY,
                                  documentScrollHeight - windowInnerHeight) ]

\* the cleanup leaves the listener registered
MutNoCleanup(registered, listener) == registered

\* window.removeEventListener("scroll", handleScroll)
RemoveListener(registered, listener) == registered \ { listener }

\* window.addEventListener("scroll", handleScroll, { passive: true }): a
\* listener that is registered already is not registered twice
AddListener(registered, listener) == registered \cup { listener }

\* a component calling useScrollPosition is rendered for the first time:
\* both states hold their initial value 0 and the effect is scheduled
RenderScrollPosition ==
    /\ scrollPhase = "unmounted"
    /\ scrollMounts < MaxMounts
    /\ scrollPhase' = "rendered"
    /\ scrollMounts' = scrollMounts + 1
    /\ scrollY' = 0
    /\ scrollProgress' = [ num |-> 0, den |-> 1 ]
    /\ pageOp' = "useScrollPosition:render"
    /\ UNCHANGED << registry, assignVars, surveyVars, hookVars, particleVars, navVars, perfVars,
                    windowScrollY, scrollHeight, innerHeight, listeners >>

\* the effect: the listener is registered and handleScroll is called once
ScrollPositionEffect ==
    /\ scrollPhase = "rendered"
    /\ scrollPhase' = "mounted"
    /\ listeners' = AddListener(listeners, Handler("useScrollPosition", scrollMounts))
    /\ scrollY' = handleScroll(windowScrollY, scrollHeight, innerHeight).scrollY
    /\ scrollProgress' =
          handleScroll(windowScrollY, scrollHeight, innerHeight).scrollProgress
    /\ pageOp' = "useScrollPosition:effect"
    /\ UNCHANGED << registry, assignVars, surveyVars, hookVars, particleVars, navVars, perfVars,
                    windowScrollY, scrollHeight, innerHeight, scrollMounts >>

\* the component is unmounted: the cleanup of an effect that has run is run
UnmountScrollPosition ==
    /\ scrollPhase \in { "rendered", "mounted" }
    /\ scrollPhase' = "unmounted"
    /\ listeners' = IF scrollPhase = "mounted"
                    THEN RemoveListener(listeners,
                                        Handler("useScrollPosition", scrollMounts))
                    ELSE listeners
    /\ pageOp' = "useScrollPosition:unmount"
    /\ UNCHANGED << registry, assignVars, surveyVars, hookVars, particleVars, navVars, perfVars,
                    windowScrollY, scrollHeight, innerHeight, scrollMounts,
                    scrollY, scrollProgress >>

\* isScrolled from 50 px on
MutScrolledFromFifty(y) == y >= 50

\* window.scrollY > 50
IsScrolled(y) == y > 50

\* the page is scrolled to y and a scroll event is dispatched on window:
\* every registered listener runs and reads the window
ScrollEvent(y) ==
    /\ windowScrollY' = y
    /\ IF Registered("useScrollPosition") # {}
       THEN /\ scrollY' = handleScroll(y, scrollHeight, innerHeight).scrollY
            /\ scrollProgress' = handleScroll(y, scrollHeight, innerHeight).scrollProgress
       ELSE UNCHANGED << scrollY, scrollProgress >>
    /\ IF Registered("Navigation") # {}
       THEN /\ isScrolled' = IsScrolled(y)
            /\ navObserved' = << y >>
       ELSE UNCHANGED << isScrolled, navObserved >>
    /\ pageOp' = "scroll"
    /\ UNCHANGED << registry, assignVars, surveyVars, hookVars, particleVars, perfVars, scrollHeight,
                    innerHeight, listeners, scrollPhase, scrollMounts, navPhase,
                    navMounts, mobileMenuOpen >>

\* content is added or removed: the document height changes, no scroll event
Relayout(height) ==
    /\ height # scrollHeight
    /\ scrollHeight' = height
    /\ pageOp' = "relayout"
    /\ UNCHANGED << registry, assignVars, surveyVars, hookVars, particleVars, scrollVars, navVars, perfVars,
                    windowScrollY, innerHeight, listeners >>

\* a loaded page, scrolled or not, before the hook is used
InitScroll ==
    /\ registry = experiments
    /\ AssignInit
    /\ SurveyIdle
    /\ HookIdle
    /\ windowScrollY \in { 0, 500 }
    /\ scrollHeight \in ScrollHeights
    /\ innerHeight \in InnerHeights
    /\ listeners = {}
    /\ pageOp = "none"
    /\ ScrollIdle
    /\ NavIdle
    /\ PerfIdle
    /\ ParticlesIdle

NextScroll ==
    \/ RenderScrollPosition
    \/ ScrollPositionEffect
    \/ UnmountScrollPosition
    \/ \E y \in ScrollPositions : ScrollEvent(y)
    \/ \E height \in ScrollHeights : Relayout(height)

SpecScroll == InitScroll /\ [][NextScroll]_vars

----------------------------------------------------------------------------
(* C16 *)

\* C16 (scroll position and progress): right after the mount effect and
\* right after every scroll event the mounted hook handles, scrollY is
\* window.scrollY; scrollProgress is scrollY / (scrollHeight - innerHeight)
\* when that scrollable height is positive and 0 otherwise, and no quotient
\* has a zero denominator; so it is 0 at the top, 1/2 halfway and 1 at the
\* bottom, and within [0, 1] whenever 0 <= scrollY <= scrollable height.
C16ScrollProgress ==
    ( /\ scrollPhase = "mounted"
      /\ pageOp \in { "useScrollPosition:effect", "scroll" } )
    => LET scrollable == scrollHeight - innerHeight
       IN  /\ scrollY = windowScrollY
           /\ scrollProgress.den > 0
           /\ scrollable > 0
              => scrollProgress.num * scrollable = scrollY * scrollProgress.den
           /\ scrollable <= 0 => scrollProgress.num = 0
           /\ ( scrollable > 0 /\ scrollY = 0 ) => scrollProgress.num = 0
           /\ ( scrollable > 0 /\ 2 * scrollY = scrollable )
              => 2 * scrollProgress.num = scrollProgress.den
           /\ ( scrollable > 0 /\ scrollY = scrollable )
              => scrollProgress.num = scrollProgress.den
           /\ ( 0 <= scrollY /\ scrollY <= scrollable )
              => /\ 0 <= scrollProgress.num
                 /\ scrollProgress.num <= scrollProgress.den

\* halfway down a 1000 px scroll range, after a scroll event
C16Witness ==
    /\ scrollPhase = "mounted"
    /\ pageOp = "scroll"
    /\ scrollHeight - innerHeight = 1000
    /\ windowScrollY = 500
    /\ scrollY = 500
    /\ 2 * scrollProgress.num = scrollProgress.den

----------------------------------------------------------------------------
(* C17 *)

\* C17 (listener lifecycle): while an instance of the hook is mounted (its
\* effect has run) exactly one scroll listener of the hook is registered and
\* it is the handleScroll of that instance; while none is mounted no listener
\* of the hook is registered; and no step taken while the hook stays
\* unmounted, a scroll event in particular, changes scrollY or scrollProgress.
C17ListenerLifecycle ==
    /\ [] ( scrollPhase = "mounted"
            => Registered("useScrollPosition")
                  = { Handler("useScrollPosition", scrollMounts) } )
    /\ [] ( scrollPhase # "mounted" => Registered("useScrollPosition") = {} )
    /\ [][ ( scrollPhase = "unmounted" /\ scrollPhase' = "unmounted" )
           => UNCHANGED << scrollY, scrollProgress >> ]_vars

\* a scroll event after the second instance was unmounted
C17Witness ==
    /\ scrollPhase = "unmounted"
    /\ scrollMounts = 2
    /\ pageOp = "scroll"
    /\ listeners = {}
    /\ scrollY = 500
    /\ windowScrollY = 1000

----------------------------------------------------------------------------
(* The component Navigation *)

navItems == << "Home", "Projects", "Contact" >>

\* className of the nav element, as the set of its classes
NavClassName(scrolled) ==
    { "fixed", "top-0", "left-0", "right-0", "z-50", "transition-all", "duration-300" }
    \cup ( IF scrolled THEN { "glass-effect", "py-4" } ELSE { "py-6" } )

\* {mobileMenuOpen && ( ... navItems.map(...) ... )}: the items the render
\* puts into the mobile menu
MobileMenuItems(open) == IF open THEN { navItems[i] : i \in 1 .. Len(navItems) } ELSE {}

\* the button opens the menu and never closes it
MutToggleOpens(open) == TRUE

\* onClick={() => setMobileMenuOpen(!mobileMenuOpen)}, the closure being
\* that of the latest render
ToggledMenu(open) == ~open

\* Navigation is rendered for the first time: both states are false
RenderNavigation ==
    /\ navPhase = "unmounted"
    /\ navMounts < MaxMounts
    /\ navPhase' = "rendered"
    /\ navMounts' = navMounts + 1
    /\ isScrolled' = FALSE
    /\ mobileMenuOpen' = FALSE
    /\ navObserved' = << >>
    /\ pageOp' = "Navigation:render"
    /\ UNCHANGED << registry, assignVars, surveyVars, hookVars, particleVars, scrollVars, perfVars,
                    windowScrollY, scrollHeight, innerHeight, listeners >>

\* the effect: the listener is registered; handleScroll is not called
NavigationEffect ==
    /\ navPhase = "rendered"
    /\ navPhase' = "mounted"
    /\ listeners' = AddListener(listeners, Handler("Navigation", navMounts))
    /\ pageOp' = "Navigation:effect"
    /\ UNCHANGED << registry, assignVars, surveyVars, hookVars, particleVars, scrollVars, perfVars,
                    windowScrollY, scrollHeight, innerHeight, navMounts,
                    isScrolled, mobileMenuOpen, navObserved >>

\* Navigation is unmounted: the cleanup of an effect that has run is run
UnmountNavigation ==
    /\ navPhase \in { "rendered", "mounted" }
    /\ navPhase' = "unmounted"
    /\ listeners' = IF navPhase = "mounted"
                    THEN RemoveListener(listeners, Handler("Navigation", navMounts))
                    ELSE listeners
    /\ pageOp' = "Navigation:unmount"
    /\ UNCHANGED << registry, assignVars, surveyVars, hookVars, particleVars, scrollVars, perfVars,
                    windowScrollY, scrollHeight, innerHeight, navMounts,
                    isScrolled, mobileMenuOpen, navObserved >>

\* a click on the button labelled 'Toggle menu'
ToggleMenu ==
    /\ navPhase # "unmounted"
    /\ mobileMenuOpen' = ToggledMenu(mobileMenuOpen)
    /\ pageOp' = "toggle"
    /\ UNCHANGED << registry, assignVars, surveyVars, hookVars, particleVars, scrollVars, perfVars,
                    windowScrollY, scrollHeight, innerHeight, listeners,
                    navPhase, navMounts, isScrolled, navObserved >>

\* a click on an item of the mobile menu: handleNavClick
ClickMobileItem(item) ==
    /\ navPhase # "unmounted"
    /\ item \in MobileMenuItems(mobileMenuOpen)
    /\ mobileMenuOpen' = FALSE
    /\ pageOp' = "item"
    /\ UNCHANGED << registry, assignVars, surveyVars, hookVars, particleVars, scrollVars, perfVars,
                    windowScrollY, scrollHeight, innerHeight, listeners,
                    navPhase, navMounts, isScrolled, navObserved >>

\* a loaded page, scrolled or not, before Navigation is rendered
InitNav ==
    /\ registry = experiments
    /\ AssignInit
    /\ SurveyIdle
    /\ HookIdle
    /\ windowScrollY \in { 0, 500 }
    /\ scrollHeight = 2000
    /\ innerHeight = 1000
    /\ listeners = {}
    /\ pageOp = "none"
    /\ ScrollIdle
    /\ NavIdle
    /\ PerfIdle
    /\ ParticlesIdle

NextNav ==
    \/ RenderNavigation
    \/ NavigationEffect
    \/ UnmountNavigation
    \/ \E y \in ScrollPositions : ScrollEvent(y)
    \/ ToggleMenu
    \/ \E item \in { navItems[i] : i \in 1 .. Len(navItems) } : ClickMobileItem(item)

SpecNav == InitNav /\ [][NextNav]_vars

----------------------------------------------------------------------------
(* C18 *)

\* C18 (mobile menu): a freshly rendered Navigation has the menu closed;
\* a click on the 'Toggle menu' button turns closed into open and open into
\* closed; a click on an item of the mobile menu happens with the menu open
\* and leaves it closed; a scroll event leaves the menu as it is; and the
\* render puts the items into the mobile menu exactly while it is open.
C18MobileMenu ==
    /\ [] ( pageOp = "Navigation:render" => ~mobileMenuOpen )
    /\ [][ pageOp' = "toggle" => mobileMenuOpen' = ~mobileMenuOpen ]_vars
    /\ [][ pageOp' = "item" => ( mobileMenuOpen /\ ~mobileMenuOpen' ) ]_vars
    /\ [][ pageOp' = "scroll" => mobileMenuOpen' = mobileMenuOpen ]_vars
    /\ [] ( /\ ~mobileMenuOpen => MobileMenuItems(mobileMenuOpen) = {}
            /\ mobileMenuOpen
               => MobileMenuItems(mobileMenuOpen) = { "Home", "Projects", "Contact" } )

\* the menu was opened, the page scrolled, and an item clicked
C18Witness ==
    /\ navPhase = "mounted"
    /\ pageOp = "item"
    /\ ~mobileMenuOpen
    /\ navObserved = << 500 >>
    /\ isScrolled

----------------------------------------------------------------------------
(* C19 *)

\* C19 (glass effect): a rendered Navigation has the class 'glass-effect'
\* exactly when its handler has handled a scroll event and read a
\* window.scrollY above 50 px at the latest one; an instance that has handled
\* no scroll event does not have it, wherever the page is scrolled to; and a
\* click on the menu button or on a menu item leaves the class as it is.
C19GlassEffect ==
    /\ [] ( navPhase # "unmounted"
            => ( "glass-effect" \in NavClassName(isScrolled)
                 <=> ( navObserved # << >> /\ navObserved[1] > 50 ) ) )
    /\ [][ pageOp' \in { "toggle", "item" }
           => NavClassName(isScrolled') = NavClassName(isScrolled) ]_vars

\* scrolled to exactly 50 px with the menu open: no glass effect
C19Witness ==
    /\ navPhase = "mounted"
    /\ navObserved = << 50 >>
    /\ ~isScrolled
    /\ "glass-effect" \notin NavClassName(isScrolled)
    /\ mobileMenuOpen
    /\ pageOp = "toggle"

----------------------------------------------------------------------------
(* The hook usePerformanceMonitor *)

\* the time between two animation frames in ms: 50 and 40 frames a second,
\* and a page that was not painted for a second
FrameGaps == { 20, 25, 1000 }

\* Math.round(num / den) for num >= 0 and den > 0: the nearest integer, a
\* half rounded up
MathRound(num, den) == ( 2 * num + den ) \div ( 2 * den )

\* quality is reduced at 45 frames a second too
MutReduceAtThreshold(currentFPS) == currentFPS <= 45

\* currentFPS < 45
ReduceQuality(currentFPS) == currentFPS < 45

\* requestAnimationFrame returns a handle no pending request has
requestAnimationFrame(pending) ==
    CHOOSE id \in 1 .. Cardinality(pending) + 1 : id \notin pending

\* the effect: the counters are set up and the first frame is requested
PerformanceMonitorEffect ==
    /\ perfPhase = "rendered"
    /\ perfPhase' = "mounted"
    /\ frameCount' = 0
    /\ lastTime' = now
    /\ animationFrameId' = requestAnimationFrame(pendingFrames)
    /\ pendingFrames' = pendingFrames \cup { requestAnimationFrame(pendingFrames) }
    /\ pageOp' = "usePerformanceMonitor:effect"
    /\ UNCHANGED << registry, assignVars, surveyVars, hookVars, particleVars, scrollVars, navVars,
                    windowScrollY, scrollHeight, innerHeight, listeners,
                    now, fps, shouldReduceQuality >>

\* the browser paints gap ms after the previous step and runs a requested
\* callback: measureFPS
AnimationFrame(gap) ==
    /\ now + gap <= MaxTime
    /\ \E id \in pendingFrames :
          LET currentTime == now + gap
              elapsed == currentTime - lastTime
              currentFPS == MathRound(( frameCount + 1 ) * 1000, elapsed)
              stillPending == pendingFrames \ { id }
          IN  /\ now' = currentTime
              /\ IF elapsed >= 1000
                 THEN /\ fps' = currentFPS
                      /\ shouldReduceQuality' = ReduceQuality(currentFPS)
                      /\ frameCount' = 0
                      /\ lastTime' = currentTime
                 ELSE /\ frameCount' = frameCount + 1
                      /\ UNCHANGED << fps, shouldReduceQuality, lastTime >>
              /\ animationFrameId' = requestAnimationFrame(stillPending)
              /\ pendingFrames' = stillPending \cup { requestAnimationFrame(stillPending) }
    /\ pageOp' = "frame"
    /\ UNCHANGED << registry, assignVars, surveyVars, hookVars, particleVars, scrollVars, navVars,
                    windowScrollY, scrollHeight, innerHeight, listeners, perfPhase >>

\* the cleanup leaves the request in place
MutCancelNothing(pending, id) == pending

\* cancelAnimationFrame(id): the request with that handle is dropped
cancelAnimationFrame(pending, id) == pending \ { id }

\* the component is unmounted: the cleanup of an effect that has run is run
UnmountPerformanceMonitor ==
    /\ perfPhase \in { "rendered", "mounted" }
    /\ perfPhase' = "unmounted"
    /\ pendingFrames' = IF perfPhase = "mounted"
                        THEN cancelAnimationFrame(pendingFrames, animationFrameId)
                        ELSE pendingFrames
    /\ pageOp' = "usePerformanceMonitor:unmount"
    /\ UNCHANGED << registry, assignVars, surveyVars, hookVars, particleVars, scrollVars, navVars,
                    windowScrollY, scrollHeight, innerHeight, listeners,
                    now, fps, shouldReduceQuality, frameCount, lastTime,
                    animationFrameId >>

\* a component using the hook has just been rendered for the first time, at
\* some time after the page was loaded
InitPerf ==
    /\ registry = experiments
    /\ AssignInit
    /\ SurveyIdle
    /\ HookIdle
    /\ WindowIdle
    /\ ScrollIdle
    /\ NavIdle
    /\ ParticlesIdle
    /\ now \in { 0, 5 }
    /\ perfPhase = "rendered"
    /\ fps = 60
    /\ shouldReduceQuality = FALSE
    /\ frameCount = 0
    /\ lastTime = 0
    /\ animationFrameId = 0
    /\ pendingFrames = {}

NextPerf ==
    \/ PerformanceMonitorEffect
    \/ \E gap \in FrameGaps : AnimationFrame(gap)
    \/ UnmountPerformanceMonitor

SpecPerf == InitPerf /\ [][NextPerf]_vars

----------------------------------------------------------------------------
(* C20 *)

\* k is num / den rounded to the nearest integer, a half rounded up
IsRounded(k, num, den) ==
    /\ ( 2 * k - 1 ) * den <= 2 * num
    /\ 2 * num < ( 2 * k + 1 ) * den

\* C20 (fps and quality): shouldReduceQuality is true exactly when fps is
\* below 45, and a freshly rendered hook has fps 60 and shouldReduceQuality
\* false; fps or shouldReduceQuality change only in a frame whose time is at
\* least 1000 ms after lastTime; every such frame sets fps to the rounded
\* quotient of 1000 times the frames counted since lastTime, this one
\* included, by the elapsed ms, and restarts the counter at 0 from that
\* frame's time; a frame before that only counts.
C20FpsAndQuality ==
    /\ [] ( shouldReduceQuality <=> fps < 45 )
    /\ [] ( perfPhase = "rendered" => ( fps = 60 /\ ~shouldReduceQuality ) )
    /\ [][ ( fps' # fps \/ shouldReduceQuality' # shouldReduceQuality )
           => ( pageOp' = "frame" /\ now' - lastTime >= 1000 ) ]_vars
    /\ [][ ( pageOp' = "frame" /\ now' - lastTime >= 1000 )
           => /\ IsRounded(fps', ( frameCount + 1 ) * 1000, now' - lastTime)
              /\ frameCount' = 0
              /\ lastTime' = now' ]_vars
    /\ [][ ( pageOp' = "frame" /\ now' - lastTime < 1000 )
           => /\ frameCount' = frameCount + 1
              /\ UNCHANGED << fps, shouldReduceQuality, lastTime >> ]_vars

\* 45 frames in exactly one second: fps 45, quality kept
C20Witness ==
    /\ perfPhase = "mounted"
    /\ pageOp = "frame"
    /\ fps = 45
    /\ ~shouldReduceQuality
    /\ frameCount = 0
    /\ lastTime = now
    /\ now > 1000

----------------------------------------------------------------------------
(* The component ParticleSystem *)

\* lib/utils/constants: PERFORMANCE_CONFIG
PERFORMANCE_CONFIG ==
    [ targetFPS |-> 60, mobileFPS |-> 30, lowPerformanceFPS |-> 24,
      particleCount |-> [ desktop |-> 300, mobile |-> 100 ] ]

\* const particleCount = isMobile ? 50 : 150
ParticleCount(mobile) == IF mobile THEN 50 ELSE 150

\* the Float32Array the useMemo callback returns: its length, and the
\* indices the loop has written (i * 3, i * 3 + 1, i * 3 + 2 for i < count)
GeneratePositions(count) ==
    [ length |-> count * 3,
      written |-> UNION { { i * 3, i * 3 + 1, i * 3 + 2 } : i \in 0 .. count - 1 } ]

\* ParticleSystem is rendered with what useIsMobile() returns; useMemo
\* computes the positions anew when particleCount has changed
RenderParticleSystem(mobile) ==
    /\ mobile # isMobile \/ pointsRef = "unrendered"
    /\ isMobile' = mobile
    /\ particleCount' = ParticleCount(mobile)
    /\ positions' = IF ParticleCount(mobile) = particleCount /\ pointsRef # "unrendered"
                    THEN positions
                    ELSE GeneratePositions(ParticleCount(mobile))
    /\ pointsRef' = IF pointsRef = "unrendered" THEN "null" ELSE pointsRef
    /\ UNCHANGED << registry, assignVars, surveyVars, hookVars, windowVars,
                    scrollVars, navVars, perfVars, rotation >>

\* the Points object is created and the ref is set
AttachPoints ==
    /\ pointsRef = "null"
    /\ pointsRef' = "points"
    /\ UNCHANGED << registry, assignVars, surveyVars, hookVars, windowVars,
                    scrollVars, navVars, perfVars, isMobile, particleCount,
                    positions, rotation >>

\* the useFrame callback: rotation.y += 0.0002, rotation.x += 0.0001, kept
\* in ten-thousandths
UseFrame ==
    /\ pointsRef # "unrendered"
    /\ rotation.y < 2 * MaxFrames
    /\ rotation' = IF pointsRef = "null"
                   THEN rotation
                   ELSE [ x |-> rotation.x + 1, y |-> rotation.y + 2 ]
    /\ UNCHANGED << registry, assignVars, surveyVars, hookVars, windowVars,
                    scrollVars, navVars, perfVars, isMobile, particleCount,
                    positions, pointsRef >>

\* the page before ParticleSystem is rendered, on either kind of device
InitParticles ==
    /\ registry = experiments
    /\ AssignInit
    /\ SurveyIdle
    /\ HookIdle
    /\ WindowIdle
    /\ ScrollIdle
    /\ NavIdle
    /\ PerfIdle
    /\ ParticlesIdle

NextParticles ==
    \/ \E mobile \in BOOLEAN : RenderParticleSystem(mobile)
    \/ AttachPoints
    \/ UseFrame

SpecParticles == InitParticles /\ [][NextParticles]_vars

----------------------------------------------------------------------------
(* C21 *)

\* C21 (adaptive particle count): a rendered ParticleSystem has
\* PERFORMANCE_CONFIG.particleCount.mobile (100) particles on a mobile device
\* and PERFORMANCE_CONFIG.particleCount.desktop (300) otherwise, and its
\* position buffer has exactly 3 * particleCount entries, all of them written.
C21AdaptiveParticleCount ==
    pointsRef # "unrendered"
    => /\ particleCount = IF isMobile THEN PERFORMANCE_CONFIG.particleCount.mobile
                                      ELSE PERFORMANCE_CONFIG.particleCount.desktop
       /\ positions.length = 3 * particleCount
       /\ positions.written = 0 .. positions.length - 1

----------------------------------------------------------------------------
(* The hash path of getVariant, observed step by step *)

\* a user id whose concatenation with 'heroCTA' hashes to -2^31
user_u9f4a2m == << 117, 115, 101, 114, 95, 117, 57, 102, 52, 97, 50, 109 >>

HashUserIds ==
    { SyntheticUserId(i) : i \in 0 .. HashSample - 1 }
    \cup { user_42, user123, user_u9f4a2m }

\* the shipped registry, and one whose heroCTA has a first weight of 0
HashRegistries == { experiments, WithHeroVariants(ZeroWeightVariants) }

\* getVariant(expId, uid) for a non-empty uid and a registered experiment,
\* with what lines 59-69 compute on the way: the string handed to
\* hashString, the hash, the divisor, the position at which the hash walk
\* returned (0 when it fell through), the draw and the returned id
HashPathCall(expId, uid) ==
    /\ UsesHashPath(uid)
    /\ Lookup(registry, expId).kind = "own"
    /\ \E r \in Draws(registry, expId, uid) :
          hashCall' = [ op |-> "getVariant", experimentId |-> expId, userId |-> uid,
                      str |-> HashInput(expId, uid),
                      hash |-> hashString(HashInput(expId, uid)),
                      den |-> MAX_SAFE_INTEGER,
                      walk |-> Walk(registry[expId].variants,
                                    HashLimbs(hashString(HashInput(expId, uid))),
                                    MAX_SAFE_INTEGER),
                      random |-> r,
                      value |-> getVariant(registry, expId, uid, r).value ]
    /\ UNCHANGED << registry, last, memo, surveyVars, hookVars, uiVars >>

InitHash ==
    /\ registry \in HashRegistries
    /\ AssignInit
    /\ SurveyIdle
    /\ HookIdle
    /\ UiIdle

NextHash == \E expId \in DOMAIN experiments, uid \in HashUserIds : HashPathCall(expId, uid)

SpecHash == InitHash /\ [][NextHash]_vars

----------------------------------------------------------------------------
(* C22 *)

\* ( h * 31 + c ) kept modulo 2^32, which is the truncation to 32 bits
PolyStep(h, c) ==
    LET lo == h.lo * 31 + c
    IN  [ hi |-> ( h.hi * 31 + lo \div Base ) % Base, lo |-> lo % Base ]

RECURSIVE PolyHash(_, _)
\* the rolling hash of the first n characters of str, as 32 bits
PolyHash(str, n) == IF n = 0 THEN Int32Zero ELSE PolyStep(PolyHash(str, n - 1), str[n])

\* the absolute value of the 32 bits h read as a signed integer
SignedMagnitude(h) ==
    IF h.hi < Base \div 2 THEN h
    ELSE [ hi |-> ( Base - h.hi - ( IF h.lo = 0 THEN 0 ELSE 1 ) ) % Base,
           lo |-> ( Base - h.lo ) % Base ]

\* C22 (hash algorithm): the string getVariant hashes is the user id followed
\* by the experiment id, and the hash of it is the absolute value of the
\* rolling hash h0 = 0, h(i+1) = h(i) * 31 + code(s[i]) truncated to a signed
\* 32-bit integer after every character.
C22HashAlgorithm ==
    hashCall.op = "getVariant"
    => /\ hashCall.str = hashCall.userId \o hashCall.experimentId
       /\ hashCall.hash = SignedMagnitude(PolyHash(hashCall.str, Len(hashCall.str)))

\* 'user_42heroCTA', whose signed hash is -173756412
C22Witness ==
    /\ hashCall.op = "getVariant"
    /\ hashCall.userId = user_42
    /\ hashCall.experimentId = heroCTA
    /\ PolyHash(hashCall.str, Len(hashCall.str)).hi >= Base \div 2
    /\ hashCall.hash = [ hi |-> 2651, lo |-> 20476 ]

----------------------------------------------------------------------------
(* C23 *)

\* C23 (normalization range): the hash is a non-negative integer, at most
\* 2^31 (a negative one would read as a 32-bit value above 2^31), also when
\* the signed hash is -2^31; the divisor is Number.MAX_SAFE_INTEGER = 2^53 - 1
\* on every call; and the hash is below the divisor, so that normalizedHash
\* is in [0, 1).
C23NormalizationRange ==
    hashCall.op = "getVariant"
    => /\ \/ hashCall.hash.hi < 32768
          \/ hashCall.hash = [ hi |-> 32768, lo |-> 0 ]
       /\ hashCall.den = << 65535, 65535, 65535, 31 >>
       /\ ~LimbsLeq(hashCall.den, HashLimbs(hashCall.hash))

\* the signed hash -2^31, whose absolute value is 2^31
C23Witness ==
    /\ hashCall.op = "getVariant"
    /\ hashCall.userId = user_u9f4a2m
    /\ hashCall.experimentId = heroCTA
    /\ PolyHash(hashCall.str, Len(hashCall.str)) = [ hi |-> 32768, lo |-> 0 ]
    /\ hashCall.hash = [ hi |-> 32768, lo |-> 0 ]

----------------------------------------------------------------------------
(* C25 *)

\* weight (in hundredths) >= 2^31 / (2^53 - 1)
WeightAtLeastBound(weight) ==
    LimbsLeq(MulSmall(<< 0, 32768 >>, WeightScale), MulSmall(<< 65535, 65535, 65535, 31 >>, weight))

----------------------------------------------------------------------------
(* C24 *)

\* weight[1] + ... + weight[i]
PrefixWeight(variants, i) ==
    LET RECURSIVE Sum(_)
        Sum(k) == IF k > i THEN 0 ELSE variants[k].weight + Sum(k + 1)
    IN  Sum(1)

\* the first position whose prefix weight satisfies AtLeast, 0 without one
FirstPosition(variants, AtLeast(_)) ==
    LET satisfying == { i \in 1 .. Len(variants) : AtLeast(PrefixWeight(variants, i)) }
    IN  IF satisfying = {} THEN 0
        ELSE CHOOSE i \in satisfying : \A j \in satisfying : i <= j

\* C24 (cumulative-weight walk): a call for a registered experiment returns
\* the id of the first variant, in declared order, whose prefix weight is at
\* least the comparison value: the normalized hash when a user id is given
\* and some prefix weight reaches it, the random draw otherwise.  No later
\* variant is returned when an earlier one satisfies the condition, on either
\* path.
C24CumulativeWalk ==
    ( /\ last.op = "getVariant"
      /\ Lookup(registry, last.experimentId).kind = "own" )
    => LET variants == registry[last.experimentId].variants
           hash == hashString(last.userId \o last.experimentId)
           \* prefix weight (hundredths) >= hash / (2^53 - 1)
           ReachesHash(w) ==
               LimbsLeq(MulSmall(<< hash.lo, hash.hi >>, WeightScale),
                        MulSmall(<< 65535, 65535, 65535, 31 >>, w))
           \* prefix weight (hundredths) >= r / RandomSteps
           ReachesDraw(w) == last.random * WeightScale <= RandomSteps * w
           byHash == IF Truthy(last.userId) THEN FirstPosition(variants, ReachesHash) ELSE 0
           byDraw == FirstPosition(variants, ReachesDraw)
       IN  /\ byHash # 0 => /\ last.value = variants[byHash].id
                            /\ last.random = NoDraw
           /\ byHash = 0 => /\ last.random # NoDraw
                            /\ byDraw # 0 => last.value = variants[byDraw].id

\* a draw of 7/12 on heroCTA (0.5, 0.5): the first variant does not reach it
\* and the second is returned
C24Witness ==
    /\ registry = experiments
    /\ last.op = "getVariant"
    /\ last.experimentId = heroCTA
    /\ last.userId = undefined
    /\ last.random = 7
    /\ last.value = "variant-a"

----------------------------------------------------------------------------
(* C26 *)

\* a page that has just rendered a component using useExperiment, with the
\* shipped experiments or with a heroCTA whose weights are 0, for which the
\* assigned variant is not always 'control'
InitRender ==
    /\ registry \in HashRegistries
    /\ AssignInit
    /\ SurveyIdle
    /\ storage \in InitialStorage
    /\ storageThrows \in BOOLEAN
    /\ gtag \in { "absent", "ok", "throws" }
    /\ experimentId \in HookExperimentIds
    /\ variant = InitialVariant
    /\ userId = InitialUserId
    /\ effectDue = TRUE
    /\ exposed = NothingReported
    /\ converted = NothingReported
    /\ emitted = << >>
    /\ outcome = NoCall
    /\ calls = NoCalls
    /\ tabs = TabsIdle
    /\ UiIdle

\* the renders and the effect runs of the hook, without conversions
NextRender ==
    \/ \E generated \in GeneratedUserIds : RunEffect(generated)
    \/ \E expId \in HookExperimentIds : ChangeExperiment(expId)

SpecRender == InitRender /\ [][NextRender]_vars

\* C26 (what the hook returns, render by render): as long as no run of the
\* effect has got past the storage access the hook returns 'control'; right
\* after a run of the effect that has computed a variant for experimentId E
\* the hook returns what getVariant(E, stored user id) returns; a render
\* with another experimentId keeps the variant of the previous experiment and
\* schedules the effect, and the variant changes in no step other than a run
\* of the effect.
C26ReturnedVariant ==
    /\ [] ( userId = emptyString => variant = "control" )
    /\ [] ( ( /\ outcome.op = "effect"
              /\ outcome.cause \notin { "storage", "getVariant" } )
            => /\ outcome.experimentId = experimentId
               /\ ~effectDue
               /\ userId = storage
               /\ variant \in { getVariant(registry, experimentId, storage, r).value :
                                  r \in Draws(registry, experimentId, storage) } )
    /\ [][ /\ experimentId' # experimentId => ( variant' = variant /\ effectDue' )
           /\ variant' # variant => ( effectDue /\ ~effectDue' /\ outcome'.op = "effect" )
         ]_vars

\* the hook rendered for colorScheme still returns heroCTA's 'variant-a':
\* the effect has not run for colorScheme yet
C26Witness ==
    /\ outcome.op = "render"
    /\ experimentId = colorScheme
    /\ effectDue
    /\ variant = "variant-a"
    /\ exposed[heroCTA] = { "variant-a" }
    /\ exposed[colorScheme] = {}

----------------------------------------------------------------------------
(* C27 *)

\* the ids the walk against Math.random() can return for experiment expId
RandomPathVariants(expId) ==
    { RandomPath(registry[expId].variants, r) : r \in 0 .. RandomSteps - 1 }

\* C27 (trackConversion only reads the user id): no call of trackConversion
\* changes what storage holds; the call hands getVariant the stored id when
\* there is a non-empty one, and undefined otherwise, so that the reported
\* variant then comes from the walk against Math.random(), which for a
\* registered experiment with several positive weights can return more than
\* one variant id.
C27ConversionOnlyReads ==
    /\ [][ outcome'.op = "trackConversion" => storage' = storage ]_vars
    /\ [] ( ( /\ outcome.op = "trackConversion"
              /\ outcome.cause # "storage" )
            => /\ calls.getVariant =
                     << [ experimentId |-> outcome.experimentId,
                          userId |-> IF storage \in { null, emptyString }
                                     THEN undefined ELSE storage ] >>
               /\ ( /\ storage \in { null, emptyString }
                    /\ Lookup(registry, outcome.experimentId).kind = "own" )
                  => /\ outcome.variant_id \in RandomPathVariants(outcome.experimentId)
                     /\ Cardinality(RandomPathVariants(outcome.experimentId)) > 1 )

\* a conversion reported as 'variant-a' while no user id is stored: every
\* exposure of heroCTA reports 'control'
C27Witness ==
    /\ outcome.op = "trackConversion"
    /\ storage = null
    /\ Len(emitted) = 1
    /\ emitted[1].name = "experiment_conversion"
    /\ emitted[1].experiment_id = heroCTA
    /\ emitted[1].variant_id = "variant-a"
    /\ emitted[1].user = null

----------------------------------------------------------------------------
(* useExperiment in several tabs of one client: one localStorage *)

\* Every tab runs its own effect to completion, but the tabs run side by
\* side: between two storage accesses of one tab another tab may read or
\* write ab_user_id.

\* line 18 in tab t: let storedUserId = localStorage.getItem('ab_user_id')
TabGetItem(t) ==
    /\ tabs[t].pc = "rendered"
    /\ tabs' = [ tabs EXCEPT ![t].pc = "read", ![t].storedUserId = storage ]
    /\ UNCHANGED << registry, assignVars, surveyVars, hookStateVars, storage, uiVars >>

\* lines 20-23 in tab t: what getItem returned decides, not what storage
\* holds by now
TabGetOrCreate(t, generated) ==
    /\ tabs[t].pc = "read"
    /\ IF Truthy(tabs[t].storedUserId)
       THEN /\ tabs' = [ tabs EXCEPT ![t].pc = "stored" ]
            /\ storage' = storage
       ELSE /\ tabs' = [ tabs EXCEPT ![t].pc = "stored",
                                     ![t].storedUserId = generated,
                                     ![t].wrote = TRUE ]
            /\ storage' = generated
    /\ UNCHANGED << registry, assignVars, surveyVars, hookStateVars, uiVars >>

\* lines 25-32 in tab t: getVariant(experimentId, storedUserId) and the
\* exposure of what it returned
TabExposure(t) ==
    /\ tabs[t].pc = "stored"
    /\ \E r \in Draws(registry, tabs[t].experimentId, tabs[t].storedUserId) :
          tabs' = [ tabs EXCEPT
                      ![t].pc = "exposed",
                      ![t].variant = getVariant(registry, tabs[t].experimentId,
                                                tabs[t].storedUserId, r).value ]
    /\ UNCHANGED << registry, assignVars, surveyVars, hookStateVars, storage, uiVars >>

\* the tabs have rendered, each a component with its own experiment
InitTabs ==
    /\ registry = experiments
    /\ AssignInit
    /\ SurveyIdle
    /\ storage \in InitialStorage
    /\ storageThrows = FALSE
    /\ gtag = "absent"
    /\ experimentId = heroCTA
    /\ variant = InitialVariant
    /\ userId = InitialUserId
    /\ effectDue = TRUE
    /\ exposed = NothingReported
    /\ converted = NothingReported
    /\ emitted = << >>
    /\ outcome = NoCall
    /\ calls = NoCalls
    /\ tabs \in [ Tabs -> { TabRendered(expId) : expId \in { heroCTA, colorScheme } } ]
    /\ UiIdle

NextTabs ==
    \/ \E t \in Tabs : TabGetItem(t)
    \/ \E t \in Tabs, generated \in GeneratedUserIds : TabGetOrCreate(t, generated)
    \/ \E t \in Tabs : TabExposure(t)

SpecTabs == InitTabs /\ [][NextTabs]_vars

----------------------------------------------------------------------------
(* C28 *)

\* C28 (race-free get-or-create): over the interleavings of the effect runs
\* of tabs sharing one storage, at most one run generates a user id and
\* writes it to ab_user_id, and every exposure that has been computed was
\* computed with the id that storage holds.
C28RaceFreeUserId ==
    /\ Cardinality({ t \in Tabs : tabs[t].wrote }) <= 1
    /\ \A t \in Tabs : tabs[t].pc = "exposed" => tabs[t].storedUserId = storage

----------------------------------------------------------------------------
(* C29 *)

\* C29 (frame loop lifecycle): while the hook is mounted exactly one
\* animation-frame callback is pending, the one whose handle is in
\* animationFrameId, and every run of measureFPS leaves exactly one pending;
\* after the unmount none is pending, measureFPS does not run, and fps,
\* shouldReduceQuality and the loop's counters keep their values.
C29FrameLoopLifecycle ==
    /\ [] ( perfPhase = "mounted" => /\ pendingFrames = { animationFrameId }
                                     /\ Cardinality(pendingFrames) = 1 )
    /\ [] ( perfPhase = "unmounted" => pendingFrames = {} )
    /\ [][ pageOp' = "frame" => /\ perfPhase = "mounted"
                                /\ Cardinality(pendingFrames') = 1 ]_vars
    /\ [][ perfPhase = "unmounted"
           => /\ perfPhase' = "unmounted"
              /\ pageOp' # "frame"
              /\ UNCHANGED << fps, shouldReduceQuality, frameCount, lastTime >> ]_vars

\* unmounted after the loop has measured a rate below 45: nothing is pending
C29Witness ==
    /\ perfPhase = "unmounted"
    /\ pageOp = "usePerformanceMonitor:unmount"
    /\ pendingFrames = {}
    /\ animationFrameId # 0
    /\ shouldReduceQuality
    /\ frameCount > 0

====
